---- MODULE Spec2Model ----
(***************************************************************************)
(* A model of skydb (src/skydb/__init__.py): SkyDB scans a root directory  *)
(* for interval directories, SkyInterval walks one interval directory for  *)
(* envmap.exr files and answers nearest-time queries, SkyProbe wraps one   *)
(* decoded environment map and tone-maps it.                               *)
(*                                                                         *)
(* Names (of directories and files) are sequences of one-character         *)
(* strings, so that the slices time[:2], time[2:4], time[4:6] and int()    *)
(* are computed as Python computes them.  A path is the sequence of its    *)
(* components, which is what os.path.normpath(p).split(os.sep) yields for  *)
(* the absolute paths SkyDB builds.  Pixel values and scales are rationals *)
(* with the fixed denominator Den; arithmetic on them is exact.            *)
(***************************************************************************)
EXTENDS Integers, Sequences, FiniteSets

VARIABLES fs, db, ret

vars == <<fs, db, ret>>

----------------------------------------------------------------------------
(* Bounds of the model. *)

\* Files and directories created under the root in the layout family.
MaxFiles == 2
\* Probe directories of the interval in the lookup family.
MaxProbes == 3
\* Pixels of the buffer in the tone-mapping family.
MaxPixels == 2

(* Program constants. *)

\* sun_visible: envmap.data.max() > 5000
SunThreshold == 5000
\* np.clip(..., 0., 255.)
ClipLo == 0
ClipHi == 255
\* astype('uint8')
Uint8Modulus == 256
\* tmoReinhard2002(self, scale=700)
DefaultReinhardScale == 700
\* tmoGamma(self, gamma, scale=1)
DefaultGammaScale == 1
\* datetime.datetime(... hour, minute, second): the ranges it accepts
HoursPerDay == 24
MinutesPerHour == 60
SecondsPerMinute == 60

\* Denominator of the fixed-point pixel values and scales (value = n / Den).
Den == 2

----------------------------------------------------------------------------
(* Names. *)

Digits == <<"0", "1", "2", "3", "4", "5", "6", "7", "8", "9">>

IsDigit(c) == \E i \in 1..Len(Digits) : Digits[i] = c

DigitVal(c) == (CHOOSE i \in 1..Len(Digits) : Digits[i] = c) - 1

EnvmapExr == <<"e", "n", "v", "m", "a", "p", ".", "e", "x", "r">>
EnvmapBak == <<"e", "n", "v", "m", "a", "p", ".", "b", "a", "k">>
RootName == <<"d", "b">>
N20130619 == <<"2", "0", "1", "3", "0", "6", "1", "9">>
Nnotes == <<"n", "o", "t", "e", "s">>
N102639 == <<"1", "0", "2", "6", "3", "9">>
N150000 == <<"1", "5", "0", "0", "0", "0">>
N190000 == <<"1", "9", "0", "0", "0", "0">>
N210000 == <<"2", "1", "0", "0", "0", "0">>
N10263 == <<"1", "0", "2", "6", "3">>

----------------------------------------------------------------------------
(* Python helpers. *)

Min(a, b) == IF a <= b THEN a ELSE b

\* s[a:b] for 0 <= a <= b: the slice is cut at the end of the string.
Slice(s, a, b) == SubSeq(s, a + 1, Min(b, Len(s)))

RECURSIVE DigitsValue(_)
DigitsValue(s) ==
    IF s = <<>> THEN 0
    ELSE 10 * DigitsValue(SubSeq(s, 1, Len(s) - 1)) + DigitVal(s[Len(s)])

\* int(s) on the characters the model's names use: an optional sign and at
\* least one digit, anything else raises ValueError.
IntOf(s) ==
    LET signed == s /= <<>> /\ s[1] \in {"+", "-"}
        body == IF signed THEN Tail(s) ELSE s
    IN  IF body = <<>> \/ \E i \in 1..Len(body) : ~IsDigit(body[i])
        THEN [ok |-> FALSE, val |-> 0]
        ELSE [ok |-> TRUE,
              val |-> IF signed /\ s[1] = "-" THEN 0 - DigitsValue(body)
                      ELSE DigitsValue(body)]

\* datetime.datetime(year=1, month=1, day=1, hour, minute, second): raises
\* ValueError outside 0..23, 0..59, 0..59.
DateTime(h, m, s) ==
    IF h \in 0..(HoursPerDay - 1) /\ m \in 0..(MinutesPerHour - 1)
       /\ s \in 0..(SecondsPerMinute - 1)
    THEN [ok |-> TRUE, hour |-> h, minute |-> m, second |-> s]
    ELSE [ok |-> FALSE, hour |-> 0, minute |-> 0, second |-> 0]

\* (a - b).total_seconds() for two datetimes of the same day.
TotalSeconds(a, b) ==
    (a.hour - b.hour) * MinutesPerHour * SecondsPerMinute
    + (a.minute - b.minute) * SecondsPerMinute + (a.second - b.second)

Abs(x) == IF x < 0 THEN 0 - x ELSE x

\* Mutant of ArgMin: the last index of the minimum.
ArgMinLast(xs) ==
    CHOOSE i \in 1..Len(xs) :
        /\ \A j \in 1..Len(xs) : xs[i] <= xs[j]
        /\ \A j \in (i + 1)..Len(xs) : xs[j] > xs[i]

\* np.argmin of a non-empty list: the first index of the minimum (1-based).
ArgMin(xs) ==
    CHOOSE i \in 1..Len(xs) :
        /\ \A j \in 1..Len(xs) : xs[i] <= xs[j]
        /\ \A j \in 1..(i - 1) : xs[j] > xs[i]

RECURSIVE Gcd(_, _)
Gcd(a, b) == IF b = 0 THEN a ELSE Gcd(b, a % b)

\* a / b of Python 3 on integers, b > 0: the exact quotient, in lowest terms.
TrueDiv(a, b) == [num |-> a \div Gcd(a, b), den |-> b \div Gcd(a, b)]

----------------------------------------------------------------------------
(* The file system: a directory is [name, dirs, files], dirs and files in  *)
(* the order the directory listing returns them; a file is [name, ok,      *)
(* data], ok telling whether EnvironmentMap can decode it and data what it *)
(* decodes to.                                                             *)

NoData == <<>>

EmptyDir(n) == [name |-> n, dirs |-> <<>>, files |-> <<>>]

RootPath == <<RootName>>

\* os.path.join(p, f)
Join(p, f) == Append(p, f)

RECURSIVE FileAt(_, _)
\* The file at the path rel (relative to dir), which names a file of the tree.
FileAt(dir, rel) ==
    IF Len(rel) = 1
    THEN LET k == CHOOSE k \in 1..Len(dir.files) : dir.files[k].name = rel[1]
         IN  dir.files[k]
    ELSE LET k == CHOOSE k \in 1..Len(dir.dirs) : dir.dirs[k].name = rel[1]
         IN  FileAt(dir.dirs[k], Tail(rel))

RECURSIVE Concat(_)
Concat(ss) == IF ss = <<>> THEN <<>> ELSE Head(ss) \o Concat(Tail(ss))

IsEnvmapExr(f) == f.name = EnvmapExr

\* Mutant of FnmatchFilter: every file matches (the pattern '*').
FnmatchFilterAny(files) == files

\* fnmatch.filter(filenames, 'envmap.exr'): the pattern has no wildcard, so the
\* names equal to it (POSIX: the match is case-sensitive).
FnmatchFilter(files) == SelectSeq(files, IsEnvmapExr)

RECURSIVE Walk(_, _)
\* The matches of os.walk(path) over the directory dir found at path: those of
\* the directory itself, then those of each subdirectory in listing order.
Walk(path, dir) ==
    LET here == FnmatchFilter(dir.files)
        own == [k \in 1..Len(here) |-> Join(path, here[k].name)]
        below == [k \in 1..Len(dir.dirs) |->
                     Walk(Join(path, dir.dirs[k].name), dir.dirs[k])]
    IN  own \o Concat(below)

RECURSIVE DirAt(_, _)
\* The directory at the path rel (relative to dir), which names a directory.
DirAt(dir, rel) ==
    IF rel = <<>> THEN dir
    ELSE LET k == CHOOSE k \in 1..Len(dir.dirs) : dir.dirs[k].name = rel[1]
         IN  DirAt(dir.dirs[k], Tail(rel))

----------------------------------------------------------------------------
(* SkyProbe. *)

\* SkyProbe(path): EnvironmentMap(path, 'angular') decodes the file or raises.
SkyProbe(root, path) ==
    LET file == FileAt(root, Tail(path))
    IN  [ok |-> file.ok, path |-> path, envmap |-> [data |-> file.data]]

\* SkyProbe.time: os.path.normpath(self.path).split(os.sep)[-2]
ProbeTime(probe) == probe.path[Len(probe.path) - 1]

\* data.max() and data.min() of a non-empty buffer.
BufMax(data) == CHOOSE x \in {data[k] : k \in 1..Len(data)} :
                    \A k \in 1..Len(data) : data[k] <= x
BufMin(data) == CHOOSE x \in {data[k] : k \in 1..Len(data)} :
                    \A k \in 1..Len(data) : x <= data[k]

\* SkyProbe.sun_visible: self.envmap.data.max() > 5000
SunVisible(probe) == BufMax(probe.envmap.data) > SunThreshold * Den

\* Mutant of ClipQuantize: the quantization without the clip before it.
QuantizeUnclipped(num, den) == (num \div den) % Uint8Modulus

\* np.clip(x, 0., 255.) of the rational num / den (den > 0), then
\* astype('uint8'): truncation, modulo 256.
ClipQuantize(num, den) ==
    LET clipped == IF num < ClipLo * den THEN [num |-> ClipLo, den |-> 1]
                   ELSE IF num > ClipHi * den THEN [num |-> ClipHi, den |-> 1]
                   ELSE [num |-> num, den |-> den]
    IN  (clipped.num \div clipped.den) % Uint8Modulus

\* One pixel of tmoReinhard2002: scale * L / (1. + L) with L = n / Den and
\* scale = k / Den > 0, which is k*n / (Den * (Den + n)).  At L = -1 numpy
\* divides the negative scale * L by zero and yields -inf, which clips to 0.
ReinhardPixel(k, n) ==
    IF Den + n = 0 THEN ClipQuantize(0 - 1, 1)
    ELSE IF Den + n > 0 THEN ClipQuantize(k * n, Den * (Den + n))
    ELSE ClipQuantize(0 - (k * n), Den * (0 - (Den + n)))

\* tmoReinhard2002(scale): elementwise over the buffer.
TmoReinhard2002(probe, k) ==
    [i \in 1..Len(probe.envmap.data) |-> ReinhardPixel(k, probe.envmap.data[i])]

RECURSIVE Pow(_, _)
Pow(b, e) == IF e = 0 THEN 1 ELSE b * Pow(b, e - 1)

\* One pixel of tmoGamma: clip(scale * d^(1/gamma), 0, 255) truncated, with
\* d = m / Den >= 0, scale = k / Den > 0 and gamma = p / q > 0: the largest v in
\* 0..255 with v <= (k/Den) * (m/Den)^(q/p), that is with
\* v^p * Den^(p+q) <= k^p * m^q.
GammaFits(v, k, m, p, q) == Pow(v, p) * Pow(Den, p + q) <= Pow(k, p) * Pow(m, q)

RECURSIVE LargestFit(_, _, _, _, _, _)
\* The largest v in lo..hi with GammaFits(v, ...), which holds at lo and is
\* antitone in v.
LargestFit(lo, hi, k, m, p, q) ==
    IF lo = hi THEN lo
    ELSE LET mid == (lo + hi + 1) \div 2
         IN  IF GammaFits(mid, k, m, p, q) THEN LargestFit(mid, hi, k, m, p, q)
             ELSE LargestFit(lo, mid - 1, k, m, p, q)

GammaPixel(k, m, p, q) == LargestFit(ClipLo, ClipHi, k, m, p, q) % Uint8Modulus

\* Mutant of GammaData: the minimum is not subtracted (negative values
\* taken as 0).
GammaDataUnshifted(data) == [i \in 1..Len(data) |-> IF data[i] < 0 THEN 0 ELSE data[i]]

\* data = self.envmap.data - self.envmap.data.min()
GammaData(data) == [i \in 1..Len(data) |-> data[i] - BufMin(data)]

\* tmoGamma(gamma, scale) for gamma = p / q > 0.
TmoGamma(probe, p, q, k) ==
    LET data == GammaData(probe.envmap.data)
    IN  [i \in 1..Len(data) |-> GammaPixel(k, data[i], p, q)]

----------------------------------------------------------------------------
(* SkyInterval. *)

\* Mutant of MapProbes: a file that does not decode is skipped.
MapProbesSkipping(root, matches) ==
    LET made == [k \in 1..Len(matches) |-> SkyProbe(root, matches[k])]
        IsOk(p) == p.ok
        kept == SelectSeq(made, IsOk)
    IN  [ok |-> TRUE,
         probes |-> [k \in 1..Len(kept) |->
                        [path |-> kept[k].path, envmap |-> kept[k].envmap]]]

\* list(map(SkyProbe, matches)): the first file that does not decode raises.
MapProbes(root, matches) ==
    LET made == [k \in 1..Len(matches) |-> SkyProbe(root, matches[k])]
    IN  IF \E k \in 1..Len(made) : ~made[k].ok
        THEN [ok |-> FALSE, probes |-> <<>>]
        ELSE [ok |-> TRUE,
              probes |-> [k \in 1..Len(made) |->
                             [path |-> made[k].path, envmap |-> made[k].envmap]]]

\* datetime.datetime(year=1, month=1, day=1, hour=int(probe.time[:2]),
\* minute=int(probe.time[2:4]), second=int(probe.time[4:6]))
RefTime(time) ==
    LET h == IntOf(Slice(time, 0, 2))
        m == IntOf(Slice(time, 2, 4))
        s == IntOf(Slice(time, 4, 6))
    IN  IF h.ok /\ m.ok /\ s.ok THEN DateTime(h.val, m.val, s.val)
        ELSE DateTime(0 - 1, 0, 0)

\* Mutant of RefTimes: the reference times in the reverse order.
RefTimesReversed(probes) ==
    [k \in 1..Len(probes) |-> RefTime(ProbeTime(probes[Len(probes) + 1 - k]))]

\* self.reftimes = [datetime(...) for probe in self.probes]
RefTimes(probes) == [k \in 1..Len(probes) |-> RefTime(ProbeTime(probes[k]))]

\* Mutant of SunVisibility: the quotient of Python 2, an integer division.
SunVisibilityFloorDiv(probes) ==
    IF Len(probes) > 0
    THEN [num |-> Cardinality({k \in 1..Len(probes) : SunVisible(probes[k])})
                     \div Len(probes),
          den |-> 1]
    ELSE [num |-> 0, den |-> 1]

\* self.sun_visibility
SunVisibility(probes) ==
    IF Len(probes) > 0
    THEN TrueDiv(Cardinality({k \in 1..Len(probes) : SunVisible(probes[k])}),
                 Len(probes))
    ELSE [num |-> 0, den |-> 1]

\* SkyInterval(path)
SkyInterval(root, path) ==
    LET matches == Walk(path, DirAt(root, Tail(path)))
        mapped == MapProbes(root, matches)
        reftimes == RefTimes(mapped.probes)
    IN  IF ~mapped.ok THEN [ok |-> FALSE, error |-> "DecodeError"]
        ELSE IF \E k \in 1..Len(reftimes) : ~reftimes[k].ok
        THEN [ok |-> FALSE, error |-> "ValueError"]
        ELSE [ok |-> TRUE, error |-> "",
              path |-> path,
              probes |-> mapped.probes,
              reftimes |-> [k \in 1..Len(reftimes) |->
                               [hour |-> reftimes[k].hour,
                                minute |-> reftimes[k].minute,
                                second |-> reftimes[k].second]],
              sun_visibility |-> SunVisibility(mapped.probes)]

\* SkyInterval.date: os.path.normpath(self.path).split(os.sep)[-1]
IntervalDate(interval) == interval.path[Len(interval.path)]

\* Mutant of TimeDistance: the distance around the clock.
TimeDistanceAroundClock(cmpdate, t) ==
    Min(Abs(TotalSeconds(cmpdate, t)),
        HoursPerDay * MinutesPerHour * SecondsPerMinute - Abs(TotalSeconds(cmpdate, t)))

\* abs((cmpdate - t).total_seconds())
TimeDistance(cmpdate, t) == Abs(TotalSeconds(cmpdate, t))

\* Mutant of ClosestProbe: no probes, no error: nothing is returned.
ClosestProbeOrNone(interval, hours, minutes, seconds) ==
    LET cmpdate == DateTime(hours, minutes, seconds)
        dists == [k \in 1..Len(interval.reftimes) |->
                     TimeDistance(cmpdate, interval.reftimes[k])]
    IN  IF ~cmpdate.ok THEN [outcome |-> "ValueError", idx |-> 0, value |-> <<>>]
        ELSE IF dists = <<>> THEN [outcome |-> "returned", idx |-> 0, value |-> <<>>]
        ELSE [outcome |-> "returned", idx |-> ArgMin(dists),
              value |-> <<interval.probes[ArgMin(dists)]>>]

\* SkyInterval.closestProbe(hours, minutes, seconds): the outcome and, when it
\* returns, the index np.argmin chose (1-based) and the probe at it.
ClosestProbe(interval, hours, minutes, seconds) ==
    LET cmpdate == DateTime(hours, minutes, seconds)
        dists == [k \in 1..Len(interval.reftimes) |->
                     TimeDistance(cmpdate, interval.reftimes[k])]
    IN  IF ~cmpdate.ok \/ dists = <<>>
        THEN [outcome |-> "ValueError", idx |-> 0, value |-> <<>>]
        ELSE [outcome |-> "returned", idx |-> ArgMin(dists),
              value |-> <<interval.probes[ArgMin(dists)]>>]

----------------------------------------------------------------------------
(* SkyDB. *)

\* [join(p, f) for f in listdir(p) if isdir(join(p, f))]
IntervalsDates(root) == [k \in 1..Len(root.dirs) |-> Join(RootPath, root.dirs[k].name)]

\* SkyDB(path): list(map(SkyInterval, self.intervals_dates)); the first
\* interval that raises ends the construction with its error.
SkyDB(root) ==
    LET dates == IntervalsDates(root)
        made == [k \in 1..Len(dates) |-> SkyInterval(root, dates[k])]
    IN  IF \E k \in 1..Len(made) : ~made[k].ok
        THEN LET first == CHOOSE k \in 1..Len(made) :
                              ~made[k].ok /\ \A j \in 1..(k - 1) : made[j].ok
             IN  [status |-> "error", error |-> made[first].error,
                  intervals_dates |-> <<>>, intervals |-> <<>>]
        ELSE [status |-> "ok", error |-> "",
              intervals_dates |-> dates,
              intervals |-> [k \in 1..Len(made) |->
                                [path |-> made[k].path,
                                 probes |-> made[k].probes,
                                 reftimes |-> made[k].reftimes,
                                 sun_visibility |-> made[k].sun_visibility]]]

----------------------------------------------------------------------------
(* The directory trees the model is run on.  A tree is built as a caller   *)
(* would build a fixture: a sequence of placements, each creating the      *)
(* directories of a path (mkdir -p) and at most one file in the last; a    *)
(* directory lists its entries in the order they were created.             *)

RECURSIVE AddAt(_, _, _)
AddAt(dir, rel, file) ==
    IF rel = <<>>
    THEN IF file = <<>> \/ \E k \in 1..Len(dir.files) : dir.files[k].name = file[1].name
         THEN dir
         ELSE [dir EXCEPT !.files = Append(@, file[1])]
    ELSE IF \E k \in 1..Len(dir.dirs) : dir.dirs[k].name = rel[1]
         THEN LET k == CHOOSE k \in 1..Len(dir.dirs) : dir.dirs[k].name = rel[1]
              IN  [dir EXCEPT !.dirs[k] = AddAt(@, Tail(rel), file)]
         ELSE [dir EXCEPT !.dirs = Append(@, AddAt(EmptyDir(rel[1]), Tail(rel), file))]

RECURSIVE Build(_)
Build(placements) ==
    IF placements = <<>> THEN EmptyDir(RootName)
    ELSE LET last == placements[Len(placements)]
         IN  AddAt(Build(SubSeq(placements, 1, Len(placements) - 1)),
                   last.at, last.file)

SeqsUpTo(S, n) == UNION {[1..m -> S] : m \in 0..n}

\* Buffers: maximum exactly 5000.0 (sun hidden) and maximum 5001.0 (sun
\* visible).
DarkData == <<0, SunThreshold * Den>>
BrightData == <<Den, (SunThreshold + 1) * Den>>

DarkEnvmap == [name |-> EnvmapExr, ok |-> TRUE, data |-> DarkData]
BrightEnvmap == [name |-> EnvmapExr, ok |-> TRUE, data |-> BrightData]
\* An envmap.exr that EnvironmentMap cannot decode.
BadEnvmap == [name |-> EnvmapExr, ok |-> FALSE, data |-> NoData]
\* A decodable image under another name.
OtherFile == [name |-> EnvmapBak, ok |-> TRUE, data |-> DarkData]

\* The layout family: two interval directories, a probe directory, a nested
\* directory with a name of five characters, files in any of them and in the
\* root itself.
LayoutDirs ==
    {<<>>}
    \cup {<<i>> : i \in {N20130619, Nnotes}}
    \cup {<<i, N102639>> : i \in {N20130619, Nnotes}}
    \cup {<<i, N102639, N10263>> : i \in {N20130619, Nnotes}}

LayoutPlacements ==
    [at : LayoutDirs, file : {<<>>, <<DarkEnvmap>>, <<BadEnvmap>>, <<OtherFile>>}]

\* The lookup family: one interval of probe directories named by times.
LookupPlacements ==
    [at : {<<N20130619, t>> : t \in {N102639, N150000, N190000, N210000}},
     file : {<<DarkEnvmap>>, <<BrightEnvmap>>}]

\* The tone-mapping family: one probe over every buffer of the radiances
\* -2, -1, -1/Den, 0, 1/Den, 1, 5000 and 5000 + 1/Den.
Radiances ==
    {0 - 2 * Den, 0 - Den, 0 - 1, 0, 1, Den, SunThreshold * Den, SunThreshold * Den + 1}

Buffers == UNION {[1..m -> Radiances] : m \in 1..MaxPixels}

TonePlacements ==
    [at : {<<N20130619, N102639>>},
     file : {<<[name |-> EnvmapExr, ok |-> TRUE, data |-> b]>> : b \in Buffers}]

Trees ==
    {Build(s) : s \in SeqsUpTo(LayoutPlacements, MaxFiles)}
    \cup {Build(s) : s \in SeqsUpTo(LookupPlacements, MaxProbes)}

ToneTrees == {Build(<<p>>) : p \in TonePlacements}

----------------------------------------------------------------------------
(* The calls a caller makes. *)

\* closestProbe(hours, minutes, seconds); 24:00:00 is no time of day.
Queries == {<<10, 30, 0>>, <<6, 0, 0>>, <<20, 0, 0>>, <<23, 59, 59>>, <<24, 0, 0>>}

\* Scales, as numerators over Den: for tmoReinhard2002 1/Den, 1 and the default
\* 700, for tmoGamma the default 1.
ReinhardScales == {1, Den, DefaultReinhardScale * Den}
\* Gammas p / q: 1/2, 1 and 2; and 0, whose reciprocal Python cannot take.
Gammas == {<<1, 2>>, <<1, 1>>, <<2, 1>>, <<0, 1>>}
\* The calls made with the default scales, and with gamma 2 and gamma 0.
DefaultReinhardScales == {DefaultReinhardScale * Den}
GammaScales == {DefaultGammaScale * Den}
SomeGammas == {<<2, 1>>, <<0, 1>>}

Unbuilt == [status |-> "unbuilt", error |-> "", intervals_dates |-> <<>>, intervals |-> <<>>]

NoCall == [op |-> "none", interval |-> 0, probe |-> 0, args |-> <<>>,
           outcome |-> "", idx |-> 0, value |-> <<>>]

Init ==
    /\ fs \in Trees
    /\ db = Unbuilt
    /\ ret = NoCall

\* db = SkyDB(path)
SkyDBInit ==
    /\ db.status = "unbuilt"
    /\ db' = SkyDB(fs)
    /\ UNCHANGED <<fs, ret>>

\* db.intervals[i].closestProbe(hours, minutes, seconds)
CallClosestProbe ==
    /\ db.status = "ok"
    /\ \E i \in 1..Len(db.intervals), q \in Queries :
          LET r == ClosestProbe(db.intervals[i], q[1], q[2], q[3])
          IN  ret' = [op |-> "closestProbe", interval |-> i, probe |-> 0, args |-> q,
                      outcome |-> r.outcome, idx |-> r.idx, value |-> r.value]
    /\ UNCHANGED <<fs, db>>

\* db.intervals[i].probes[j].tmoReinhard2002(scale)
CallTmoReinhard2002(scales) ==
    /\ db.status = "ok"
    /\ \E i \in 1..Len(db.intervals) :
          \E j \in 1..Len(db.intervals[i].probes), k \in scales :
             ret' = [op |-> "tmoReinhard2002", interval |-> i, probe |-> j,
                     args |-> <<k>>, outcome |-> "returned", idx |-> 0,
                     value |-> TmoReinhard2002(db.intervals[i].probes[j], k)]
    /\ UNCHANGED <<fs, db>>

\* db.intervals[i].probes[j].tmoGamma(gamma, scale): 1./gamma raises
\* ZeroDivisionError for gamma = 0.
CallTmoGamma(gammas, scales) ==
    /\ db.status = "ok"
    /\ \E i \in 1..Len(db.intervals) :
          \E j \in 1..Len(db.intervals[i].probes), g \in gammas, k \in scales :
             ret' = IF g[1] = 0
                    THEN [op |-> "tmoGamma", interval |-> i, probe |-> j,
                          args |-> <<g[1], g[2], k>>, outcome |-> "ZeroDivisionError",
                          idx |-> 0, value |-> <<>>]
                    ELSE [op |-> "tmoGamma", interval |-> i, probe |-> j,
                          args |-> <<g[1], g[2], k>>, outcome |-> "returned", idx |-> 0,
                          value |-> TmoGamma(db.intervals[i].probes[j], g[1], g[2], k)]
    /\ UNCHANGED <<fs, db>>

Next ==
    \/ SkyDBInit
    \/ CallClosestProbe
    \/ CallTmoReinhard2002(DefaultReinhardScales)
    \/ CallTmoGamma(SomeGammas, GammaScales)

\* The database over the layout and lookup trees.
Spec == Init /\ [][Next]_vars

InitTone ==
    /\ fs \in ToneTrees
    /\ db = Unbuilt
    /\ ret = NoCall

NextTone ==
    \/ SkyDBInit
    \/ CallClosestProbe
    \/ CallTmoReinhard2002(ReinhardScales)
    \/ CallTmoGamma(Gammas, GammaScales)

\* The database over one probe of every buffer, tone-mapped with every scale
\* and gamma.
SpecTone == InitTone /\ [][NextTone]_vars

----------------------------------------------------------------------------
(* What the claims are stated with. *)

\* The envmap.exr files of the subtree of dir (found at path): the path of
\* each, the name of the directory that holds it and whether it decodes.
RECURSIVE EnvmapEntries(_, _)
EnvmapEntries(path, dir) ==
    {[path |-> Join(path, dir.files[k].name), parent |-> dir.name, ok |-> dir.files[k].ok] :
        k \in {k \in 1..Len(dir.files) : dir.files[k].name = EnvmapExr}}
    \cup UNION {EnvmapEntries(Join(path, dir.dirs[k].name), dir.dirs[k]) :
                   k \in 1..Len(dir.dirs)}

\* The envmap.exr files under the k-th subdirectory of the root.
IntervalEntries(k) == EnvmapEntries(Join(RootPath, fs.dirs[k].name), fs.dirs[k])

SecondsOfDay(t) == t.hour * MinutesPerHour * SecondsPerMinute
                   + t.minute * SecondsPerMinute + t.second

QuerySeconds(q) == q[1] * MinutesPerHour * SecondsPerMinute + q[2] * SecondsPerMinute + q[3]

ValidQuery(q) ==
    /\ q[1] \in 0..(HoursPerDay - 1)
    /\ q[2] \in 0..(MinutesPerHour - 1)
    /\ q[3] \in 0..(SecondsPerMinute - 1)

\* The distance in seconds of day between a query and a reference time.
LinearDistance(q, t) == Abs(QuerySeconds(q) - SecondsOfDay(t))

\* The same around the clock: the shorter way, across midnight or not.
CircularDistance(q, t) ==
    Min(LinearDistance(q, t),
        HoursPerDay * MinutesPerHour * SecondsPerMinute - LinearDistance(q, t))

\* The interval the last call was made on.
Called == db.intervals[ret.interval]

ProbeTimes(interval) == [k \in 1..Len(interval.probes) |-> ProbeTime(interval.probes[k])]

----------------------------------------------------------------------------
\* C1: on an interval with at least one probe and for a valid time of day,
\* closestProbe returns the probe at the smallest index whose reference time
\* is at the minimum distance, in seconds of day, from the query; a query for
\* 10:30:00 against probes at 102639 and 150000 returns the 102639 probe.
C1_ClosestProbeFirstMinimum ==
    (ret.op = "closestProbe" /\ ValidQuery(ret.args) /\ Len(Called.probes) > 0) =>
        /\ ret.outcome = "returned"
        /\ ret.idx \in 1..Len(Called.probes)
        /\ ret.value = <<Called.probes[ret.idx]>>
        /\ \A j \in 1..Len(Called.reftimes) :
              LinearDistance(ret.args, Called.reftimes[ret.idx])
                 <= LinearDistance(ret.args, Called.reftimes[j])
        /\ \A j \in 1..(ret.idx - 1) :
              LinearDistance(ret.args, Called.reftimes[j])
                 > LinearDistance(ret.args, Called.reftimes[ret.idx])
        /\ (ret.args = <<10, 30, 0>>
            /\ ProbeTimes(Called) \in {<<N102639, N150000>>, <<N150000, N102639>>})
              => ProbeTime(ret.value[1]) = N102639

\* Three probes, the later two at the same minimal distance from the query:
\* the earlier of the two is returned.
C1_Witness ==
    /\ ret.op = "closestProbe"
    /\ ret.outcome = "returned"
    /\ Len(Called.probes) = 3
    /\ ret.idx = 2
    /\ LinearDistance(ret.args, Called.reftimes[2])
          = LinearDistance(ret.args, Called.reftimes[3])
    /\ LinearDistance(ret.args, Called.reftimes[1])
          > LinearDistance(ret.args, Called.reftimes[2])

\* C2: on an interval whose directory subtree holds no envmap.exr, closestProbe
\* ends in an error for every query and returns no probe and no sentinel.
C2_ClosestProbeEmptyFails ==
    (ret.op = "closestProbe" /\ IntervalEntries(ret.interval) = {}) =>
        /\ Called.probes = <<>>
        /\ ret.outcome = "ValueError"
        /\ ret.value = <<>>

C2_Witness ==
    /\ ret.op = "closestProbe"
    /\ ValidQuery(ret.args)
    /\ IntervalEntries(ret.interval) = {}
    /\ fs.dirs[ret.interval].dirs /= <<>>
    /\ ret.outcome = "ValueError"

\* The probes of an interval whose buffer holds a value above 5000.
SunVisibleCount(interval) ==
    Cardinality({k \in 1..Len(interval.probes) :
                    \E i \in 1..Len(interval.probes[k].envmap.data) :
                        interval.probes[k].envmap.data[i] > SunThreshold * Den})

\* C3: after construction sun_visibility is the number of probes whose maximum
\* radiance is above 5000, divided by the number of probes, as an exact
\* fraction, and 0 for an interval without probes; a maximum of exactly 5000
\* does not count.
C3_SunVisibilityFraction ==
    db.status = "ok" =>
        \A k \in 1..Len(db.intervals) :
            LET interval == db.intervals[k]
                sv == interval.sun_visibility
            IN  /\ sv.den > 0
                /\ IF interval.probes = <<>> THEN sv.num = 0
                   ELSE sv.num * Len(interval.probes) = SunVisibleCount(interval) * sv.den

\* One of three probes sees the sun, one of the others has a maximum of exactly
\* 5000: sun_visibility is 1/3.
C3_Witness ==
    /\ db.status = "ok"
    /\ \E k \in 1..Len(db.intervals) :
          /\ Len(db.intervals[k].probes) = 3
          /\ SunVisibleCount(db.intervals[k]) = 1
          /\ \E j \in 1..3 : BufMax(db.intervals[k].probes[j].envmap.data) = SunThreshold * Den
          /\ db.intervals[k].sun_visibility = [num |-> 1, den |-> 3]

\* The buffer the last tone-mapping call was made on.
CalledData == Called.probes[ret.probe].envmap.data

\* C4, as claimed: for every buffer and every scale > 0 the output of
\* tmoReinhard2002 lies in [0, 255], is non-decreasing in the radiance of the
\* pixel and is 0 where the radiance is 0.
C4_ReinhardMonotoneEverywhere ==
    (ret.op = "tmoReinhard2002" /\ ret.args[1] > 0) =>
        /\ Len(ret.value) = Len(CalledData)
        /\ \A a \in 1..Len(ret.value) :
              /\ ret.value[a] \in ClipLo..ClipHi
              /\ CalledData[a] = 0 => ret.value[a] = 0
        /\ \A a, b \in 1..Len(ret.value) :
              CalledData[a] <= CalledData[b] => ret.value[a] <= ret.value[b]

\* C4, amended: the same, the output being non-decreasing over the radiances
\* that are at least -1; below -1 the quotient L / (1 + L) is positive again.
C4_ReinhardMonotoneFromMinusOne ==
    (ret.op = "tmoReinhard2002" /\ ret.args[1] > 0) =>
        /\ Len(ret.value) = Len(CalledData)
        /\ \A a \in 1..Len(ret.value) :
              /\ ret.value[a] \in ClipLo..ClipHi
              /\ CalledData[a] = 0 => ret.value[a] = 0
        /\ \A a, b \in 1..Len(ret.value) :
              (0 - Den <= CalledData[a] /\ CalledData[a] <= CalledData[b])
                 => ret.value[a] <= ret.value[b]

\* With the default scale a radiance of 1/Den maps below 255 and a radiance
\* above 5000 is clipped to 255.
C4_Witness ==
    /\ ret.op = "tmoReinhard2002"
    /\ ret.args = <<DefaultReinhardScale * Den>>
    /\ Len(ret.value) = 2
    /\ CalledData[1] = 1
    /\ CalledData[2] > SunThreshold * Den
    /\ 0 < ret.value[1]
    /\ ret.value[1] < ret.value[2]
    /\ ret.value[2] = ClipHi

\* C5: for every buffer, every gamma > 0 and the default scale the output of
\* tmoGamma lies in [0, 255] and is 0 at every pixel that holds the minimum of
\* the buffer.
C5_GammaRangeAndMinimum ==
    (ret.op = "tmoGamma" /\ ret.args[1] > 0 /\ ret.args[3] = DefaultGammaScale * Den) =>
        /\ ret.outcome = "returned"
        /\ Len(ret.value) = Len(CalledData)
        /\ \A a \in 1..Len(ret.value) :
              /\ ret.value[a] \in ClipLo..ClipHi
              /\ (\A b \in 1..Len(CalledData) : CalledData[a] <= CalledData[b])
                    => ret.value[a] = 0

\* A buffer whose minimum is not 0: the minimum maps to 0, the other pixel
\* does not.
C5_Witness ==
    /\ ret.op = "tmoGamma"
    /\ ret.outcome = "returned"
    /\ ret.args = <<2, 1, DefaultGammaScale * Den>>
    /\ Len(ret.value) = 2
    /\ CalledData[1] = Den
    /\ CalledData[2] > CalledData[1]
    /\ ret.value[1] = 0
    /\ ret.value[2] > 0

\* C6: a constructed database holds one interval per immediate subdirectory of
\* the root, in listing order and with the name of the subdirectory as date
\* (files of the root give none), and each interval holds one probe per
\* envmap.exr of its subtree (other files give none) whose time is the name of
\* the directory that holds the file.
C6_DatabaseMirrorsTree ==
    db.status = "ok" =>
        /\ Len(db.intervals) = Len(fs.dirs)
        /\ \A k \in 1..Len(db.intervals) :
              LET probes == db.intervals[k].probes
              IN  /\ IntervalDate(db.intervals[k]) = fs.dirs[k].name
                  /\ Len(probes) = Cardinality(IntervalEntries(k))
                  /\ {[path |-> probes[j].path, parent |-> ProbeTime(probes[j]), ok |-> TRUE] :
                         j \in 1..Len(probes)} = IntervalEntries(k)

\* root/20130619/102639/envmap.exr and a file in the root: one interval, dated
\* 20130619, of one probe, of time 102639.
C6_Witness ==
    /\ db.status = "ok"
    /\ fs.files /= <<>>
    /\ Len(db.intervals) = 1
    /\ IntervalDate(db.intervals[1]) = N20130619
    /\ Len(db.intervals[1].probes) = 1
    /\ ProbeTime(db.intervals[1].probes[1]) = N102639
    /\ db.intervals[1].probes[1].path = <<RootName, N20130619, N102639, EnvmapExr>>

\* C7, as claimed: in a constructed database the time of every probe is
\* exactly six digits, whatever the directory tree.
C7_TimeIsSixDigits ==
    db.status = "ok" =>
        \A k \in 1..Len(db.intervals) :
            \A j \in 1..Len(db.intervals[k].probes) :
                LET time == ProbeTime(db.intervals[k].probes[j])
                IN  Len(time) = 6 /\ \A i \in 1..Len(time) : IsDigit(time[i])

\* C8: in a constructed database, whatever was called since, the probes of an
\* interval are the matches of the walk in its order, there are as many
\* reference times as probes, and the i-th reference time is the hour, minute
\* and second parsed from the time of the i-th probe.
C8_ParallelArrays ==
    db.status = "ok" =>
        \A k \in 1..Len(db.intervals) :
            LET interval == db.intervals[k]
                walked == Walk(interval.path, fs.dirs[k])
            IN  /\ Len(interval.probes) = Len(interval.reftimes)
                /\ Len(interval.probes) = Len(walked)
                /\ \A i \in 1..Len(interval.probes) :
                      LET time == ProbeTime(interval.probes[i])
                      IN  /\ interval.probes[i].path = walked[i]
                          /\ interval.reftimes[i] =
                                [hour |-> IntOf(Slice(time, 0, 2)).val,
                                 minute |-> IntOf(Slice(time, 2, 4)).val,
                                 second |-> IntOf(Slice(time, 4, 6)).val]

\* After a call, an interval whose walk found the later probe first.
C8_Witness ==
    /\ db.status = "ok"
    /\ ret.op \in {"closestProbe", "tmoReinhard2002", "tmoGamma"}
    /\ Len(Called.probes) = 3
    /\ SecondsOfDay(Called.reftimes[1]) > SecondsOfDay(Called.reftimes[2])
    /\ SecondsOfDay(Called.reftimes[2]) < SecondsOfDay(Called.reftimes[3])

\* C9: closestProbe does not measure around the clock: for a query of 06:00:00
\* against probes at 19:00:00 and 21:00:00 it returns the 19:00:00 probe,
\* which is 11 hours away around the clock, the 21:00:00 probe being 9.
C9_NoWrapAtMidnight ==
    (/\ ret.op = "closestProbe"
     /\ ret.args = <<6, 0, 0>>
     /\ ProbeTimes(Called) \in {<<N190000, N210000>>, <<N210000, N190000>>}) =>
        /\ ret.outcome = "returned"
        /\ ProbeTime(ret.value[1]) = N190000
        /\ \E j \in 1..Len(Called.reftimes) :
              CircularDistance(ret.args, Called.reftimes[j])
                 < CircularDistance(ret.args, Called.reftimes[ret.idx])

\* A returned probe that is further away around the clock than another probe
\* of the interval.
C9_Witness ==
    /\ ret.op = "closestProbe"
    /\ ret.outcome = "returned"
    /\ ret.args = <<6, 0, 0>>
    /\ ProbeTimes(Called) = <<N190000, N210000>>
    /\ ProbeTime(ret.value[1]) = N190000
    /\ CircularDistance(ret.args, Called.reftimes[2])
          < CircularDistance(ret.args, Called.reftimes[ret.idx])

\* C10: construction is fail-fast.  An interval with an envmap.exr that does
\* not decode fails with the decode error, and the database with it: with the
\* decode error when that interval is the first to fail.  A constructed
\* database holds a probe for every envmap.exr, each of which decoded.
C10_FailFast ==
    /\ \A k \in 1..Len(fs.dirs) :
          (\E e \in IntervalEntries(k) : ~e.ok) =>
              LET made == [j \in 1..k |-> SkyInterval(fs, Join(RootPath, fs.dirs[j].name))]
              IN  /\ ~made[k].ok
                  /\ made[k].error = "DecodeError"
                  /\ db.status \in {"unbuilt", "error"}
                  /\ (db.status = "error" /\ \A j \in 1..(k - 1) : made[j].ok)
                        => db.error = "DecodeError"
    /\ db.status = "ok" =>
          \A k \in 1..Len(fs.dirs) :
              /\ \A e \in IntervalEntries(k) : e.ok
              /\ Len(db.intervals[k].probes) = Cardinality(IntervalEntries(k))

\* A failed construction over an interval that holds an envmap.exr that decodes
\* and one that does not.
C10_Witness ==
    /\ db.status = "error"
    /\ db.error = "DecodeError"
    /\ \E k \in 1..Len(fs.dirs) :
          /\ \E e \in IntervalEntries(k) : e.ok
          /\ \E e \in IntervalEntries(k) : ~e.ok

====
